---- MODULE Spec2Model ----
(***************************************************************************)
(* Model of the seek-tune fingerprint indexer: processAndSave, the chunked *)
(* driver FingerprintAudioChunked, Fingerprint and createAddress (Spec,    *)
(* SpecAddr, SpecCancel), Downsample (SpecDown), ExtractPeaks (SpecPeaks), *)
(* the worker pool of processFilesConcurrently (SpecPool) and concurrent   *)
(* index requests of handleIndex (SpecRace).                               *)
(*                                                                         *)
(* Units.  The Go code computes with float64 seconds and Hz.  The model    *)
(* keeps exact integers: a time is a number of microseconds and a          *)
(* frequency a number of tenths of a Hz, so that uint32(x*1000) is         *)
(* x \div 1000 and uint32(f/10) is f \div 100, truncation included.        *)
(***************************************************************************)
EXTENDS Integers, Sequences, FiniteSets, TLC

VARIABLES
    pc,           \* position in processAndSave / FingerprintAudioChunked
    cfg,          \* FingerprintConfig (the fields the driver reads)
    fileDuration, \* the input file: what the duration probe reports
    filePeaks,    \* the input file: its peaks, in ExtractPeaks order
    songs,        \* store: ids of the registered works
    fpStore,      \* store: fingerprint records
    nextID,       \* store: next id RegisterSong allocates
    songID,       \* processAndSave: the allocated id (0 before RegisterSong)
    retErr,       \* processAndSave: the returned error ("none" on success)
    duration,     \* FingerprintAudioChunked locals
    start,
    dur,
    chunkIdx,
    fingerprints, \* the accumulator map
    peaks,        \* peaks of the chunk last fingerprinted (times absolute)
    chunkFP,      \* map of the chunk last fingerprinted
    fpRet,        \* returned map: [nil |-> BOOLEAN, map |-> address :> couple]
    fpErr,        \* returned error ("none" on success)
    tmpFiles,     \* temporary chunk files present in tmp/
    extractLog,   \* history: every ExtractChunkAsWAV call, <<start, dur>>
    emitLog,      \* history: every map write of Fingerprint, in order
    fault,        \* history: the failure the environment produced
    addrIn,       \* createAddress: <<anchor, target>>
    addrOut,      \* createAddress: the address returned
    cancelAt,     \* history: chunkIdx at the caller's cancel (-1: no cancel)
    dsIn,         \* Downsample: [input, originalSampleRate, targetSampleRate]
    dsOut,        \* Downsample: [err, out]
    epIn,         \* ExtractPeaks: [spectrogram, WindowSize, FreqBands]
    epOut,        \* ExtractPeaks: the peaks returned
    numCPU,       \* processFilesConcurrently: runtime.NumCPU()
    numFiles,     \* len(filePaths)
    maxWorkers,   \* the number of workers started
    jobs,         \* the jobs channel (buffered, capacity numFiles)
    jobsClosed,   \* close(jobs) has run
    results,      \* the results channel (buffered, capacity numFiles)
    worker,       \* worker goroutine -> [st, fp]
    sendIdx,      \* files sent on jobs so far
    recvIdx,      \* results received so far
    successCount,
    errorCount,
    saveCalls,    \* history: file -> number of saveEntry calls
    reqKey,       \* index request -> its title/author key
    reqPC,        \* index request -> position in handleIndex/processAndSave
    reqSongID,    \* index request -> the id RegisterSong returned (0: none)
    reqResult,    \* index request -> "none", "ok" or the error returned
    songKey       \* store: id -> key of the work row

vars == <<pc, cfg, fileDuration, filePeaks, songs, fpStore, nextID, songID,
          retErr, duration, start, dur, chunkIdx, fingerprints, peaks,
          chunkFP, fpRet, fpErr, tmpFiles, extractLog, emitLog, fault,
          addrIn, addrOut, cancelAt, dsIn, dsOut, epIn, epOut, numCPU,
          numFiles, maxWorkers, jobs, jobsClosed, results, worker, sendIdx,
          recvIdx, successCount, errorCount, saveCalls, reqKey, reqPC,
          reqSongID, reqResult, songKey>>

(***************************************************************************)
(* Bounds of the model.                                                    *)
(***************************************************************************)
MaxPeaks == 3
MaxDurSec == 9
MaxZone == 2

(***************************************************************************)
(* Program constants.                                                      *)
(***************************************************************************)
maxFreqBits == 9
maxDeltaBits == 14
\* overlap := 5.0 (seconds), in microseconds
overlap == 5000000
\* ffmpeg -ar 44100: the sample rate of every chunk WAV
sampleRate == 44100

(***************************************************************************)
(* uint32 arithmetic.  A uint32 is kept as two 16-bit limbs <<hi, lo>>,    *)
(* its value being hi * 2^16 + lo; every operation wraps at 32 bits.       *)
(***************************************************************************)
RECURSIVE BitAnd(_, _)
BitAnd(a, b) ==
    IF a = 0 \/ b = 0 THEN 0
    ELSE (IF a % 2 = 1 /\ b % 2 = 1 THEN 1 ELSE 0) + 2 * BitAnd(a \div 2, b \div 2)

RECURSIVE BitOr(_, _)
BitOr(a, b) ==
    IF a = 0 THEN b
    ELSE IF b = 0 THEN a
    ELSE (IF a % 2 = 1 \/ b % 2 = 1 THEN 1 ELSE 0) + 2 * BitOr(a \div 2, b \div 2)

\* uint32(x) for an integer 0 <= x < 2^31
ToUint32(x) == <<(x \div 65536) % 65536, x % 65536>>

And32(a, b) == <<BitAnd(a[1], b[1]), BitAnd(a[2], b[2])>>

Or32(a, b) == <<BitOr(a[1], b[1]), BitOr(a[2], b[2])>>

\* a << n, 0 <= n < 32; bits shifted beyond bit 31 are lost
ShiftLeft(a, n) ==
    LET k == IF n >= 16 THEN n - 16 ELSE n
        hiPart == (a[1] * (2^k)) % 65536
        loPart == a[2] * (2^k)
    IN  IF n >= 16
        THEN <<loPart % 65536, 0>>
        ELSE <<(hiPart + (loPart \div 65536)) % 65536, loPart % 65536>>

\* (1 << bits) - 1
Mask(bits) == ToUint32(2^bits - 1)

(***************************************************************************)
(* createAddress.                                                          *)
(***************************************************************************)
createAddressShift22(anchor, target) ==
    LET anchorFreqBin == ToUint32(anchor.Freq \div 100)
        targetFreqBin == ToUint32(target.Freq \div 100)
        deltaMsRaw == ToUint32((target.Time - anchor.Time) \div 1000)
        anchorFreqBits == And32(anchorFreqBin, Mask(maxFreqBits))
        targetFreqBits == And32(targetFreqBin, Mask(maxFreqBits))
        deltaBits == And32(deltaMsRaw, Mask(maxDeltaBits))
    IN  Or32(Or32(ShiftLeft(anchorFreqBits, 22), ShiftLeft(targetFreqBits, 14)),
             deltaBits)

createAddressSwapped(anchor, target) ==
    LET anchorFreqBin == ToUint32(anchor.Freq \div 100)
        targetFreqBin == ToUint32(target.Freq \div 100)
        deltaMsRaw == ToUint32((target.Time - anchor.Time) \div 1000)
        anchorFreqBits == And32(anchorFreqBin, Mask(maxFreqBits))
        targetFreqBits == And32(targetFreqBin, Mask(maxFreqBits))
        deltaBits == And32(deltaMsRaw, Mask(maxDeltaBits))
    IN  Or32(Or32(ShiftLeft(targetFreqBits, 23), ShiftLeft(anchorFreqBits, 14)),
             deltaBits)

createAddress(anchor, target) ==
    LET anchorFreqBin == ToUint32(anchor.Freq \div 100)
        targetFreqBin == ToUint32(target.Freq \div 100)
        deltaMsRaw == ToUint32((target.Time - anchor.Time) \div 1000)
        anchorFreqBits == And32(anchorFreqBin, Mask(maxFreqBits))
        targetFreqBits == And32(targetFreqBin, Mask(maxFreqBits))
        deltaBits == And32(deltaMsRaw, Mask(maxDeltaBits))
    IN  Or32(Or32(ShiftLeft(anchorFreqBits, 23), ShiftLeft(targetFreqBits, 14)),
             deltaBits)

(***************************************************************************)
(* Fingerprint.  ZonePairs is the order in which the two loops visit the   *)
(* pairs (indices from 1): for i, for j := i+1; j <= len && j <= i+Z.      *)
(***************************************************************************)
RECURSIVE ZoneLoop(_, _, _, _)
ZoneLoop(n, Z, i, j) ==
    IF i > n THEN <<>>
    ELSE IF j <= n /\ j <= i + Z THEN <<(<<i, j>>)>> \o ZoneLoop(n, Z, i, j + 1)
    ELSE ZoneLoop(n, Z, i + 1, i + 2)

ZonePairsShort(n, Z) == ZoneLoop(n, Z - 1, 1, 2)

ZonePairs(n, Z) == ZoneLoop(n, Z, 1, 2)

\* uint32(anchor.Time * 1000): the model's times stay below 2^31 ms
Couple(anchor, id) == [AnchorTimeMs |-> anchor.Time \div 1000, SongID |-> id]

\* the writes fingerprints[address] = couple, in the order they happen
Writes(pks, id, Z) ==
    LET ps == ZonePairs(Len(pks), Z)
    IN  [k \in 1..Len(ps) |->
            [address |-> createAddress(pks[ps[k][1]], pks[ps[k][2]]),
             couple |-> Couple(pks[ps[k][1]], id)]]

RECURSIVE ApplyWrites(_, _)
ApplyWrites(m, ws) ==
    IF ws = <<>> THEN m
    ELSE ApplyWrites((Head(ws).address :> Head(ws).couple) @@ m, Tail(ws))

RECURSIVE ApplyWritesKeepFirst(_, _)
ApplyWritesKeepFirst(m, ws) ==
    IF ws = <<>> THEN m
    ELSE ApplyWritesKeepFirst(m @@ (Head(ws).address :> Head(ws).couple), Tail(ws))

FingerprintKeepFirst(pks, id, c) ==
    ApplyWritesKeepFirst(<<>>, Writes(pks, id, c.TargetZoneSize))

Fingerprint(pks, id, c) == ApplyWrites(<<>>, Writes(pks, id, c.TargetZoneSize))

(***************************************************************************)
(* Store adapter (db package): RegisterSong, DeleteSongByID,               *)
(* StoreFingerprints.  A stored record is (address, anchor_time_ms,        *)
(* work_id).                                                               *)
(***************************************************************************)
Records(m) ==
    {[address |-> a, AnchorTimeMs |-> m[a].AnchorTimeMs, SongID |-> m[a].SongID] :
        a \in DOMAIN m}

\* delete_work: removes the work row and all fingerprints with that id
DeleteSongByID(id) ==
    /\ songs' = songs \ {id}
    /\ fpStore' = {r \in fpStore : r.SongID # id}

\* utils.ExtendMap(dest, src): every entry of src is written into dest
ExtendMap(dest, src) == src @@ dest

(***************************************************************************)
(* The inputs: configurations, durations and peak lists.                   *)
(* ChunkDurationSec is kept in microseconds like every time of the model.  *)
(***************************************************************************)
Configs ==
    [DSPRatio : {8, 50000},
     TargetZoneSize : 0..MaxZone,
     ChunkDurationSec : {-1000000, 0, 3000000, 8000000}]

Durations == {0, 5000000, MaxDurSec * 1000000}

Freqs == {4432, 8800}

PeakTimes(D) == {t \in {k * 4200500 : k \in 0..MaxDurSec} : t < D}

PeakSet(D) == [Freq : Freqs, Time : PeakTimes(D)]

\* ExtractPeaks emits frame-major: times never decrease along the list
PeakLists(D) ==
    {s \in UNION {[1..n -> PeakSet(D)] : n \in 0..MaxPeaks} :
        \A i \in 1..(Len(s) - 1) : s[i].Time <= s[i + 1].Time}

NoFault == [kind |-> "none", chunk |-> 0]

NilMap == [nil |-> TRUE, map |-> <<>>]

\* FingerprintAudioChunked has returned (processAndSave called it after a
\* successful RegisterSong and is at or past its error test)
FpReturned ==
    \/ pc \in {"fp_returned", "store_failed"}
    \/ pc = "done" /\ retErr # "register"

(***************************************************************************)
(* FingerprintAudioChunked: the locals derived from cfg and duration.      *)
(***************************************************************************)
ChunkDur(c, d) == IF c.ChunkDurationSec <= 0 THEN d ELSE c.ChunkDurationSec

StepNoOverlap(chunkDur) == chunkDur

StepGap(chunkDur) == chunkDur + overlap

Step(chunkDur) == IF chunkDur - overlap <= 0 THEN chunkDur ELSE chunkDur - overlap

\* Spectrogram fails exactly when Downsample rejects its sample rates
\* (DSPRatio = 0, an integer division by zero, is not among the Configs)
SpectrogramFails(c) ==
    LET targetRate == sampleRate \div c.DSPRatio
    IN  \/ targetRate <= 0
        \/ sampleRate <= 0
        \/ targetRate > sampleRate
        \/ sampleRate \div targetRate <= 0

\* the peaks ExtractPeaks returns for chunk [s, s+d): the peaks of the file
\* that fall in the chunk, with times relative to the chunk start
ChunkPeaks(s, d) ==
    LET inside == SelectSeq(filePeaks, LAMBDA p : s <= p.Time /\ p.Time < s + d)
    IN  [i \in 1..Len(inside) |-> [inside[i] EXCEPT !.Time = @ - s]]

\* for i := range peaks { peaks[i].Time += start }
OffsetPeaks(pks, s) == [i \in 1..Len(pks) |-> [pks[i] EXCEPT !.Time = @ + s]]

driverVars == <<duration, start, dur, chunkIdx, fingerprints, peaks, chunkFP,
                tmpFiles, extractLog, emitLog>>
storeVars == <<songs, fpStore, nextID>>
inputVars == <<cfg, fileDuration, filePeaks>>
addrVars == <<addrIn, addrOut>>
cancelVars == <<cancelAt>>
downVars == <<dsIn, dsOut>>
peakVars == <<epIn, epOut>>
poolVars == <<numCPU, numFiles, maxWorkers, jobs, jobsClosed, results, worker,
              sendIdx, recvIdx, successCount, errorCount, saveCalls>>
raceVars == <<reqKey, reqPC, reqSongID, reqResult, songKey>>
\* the variables of the other parts of the program, which the indexing path
\* never touches
otherVars == <<addrVars, cancelVars, downVars, peakVars, poolVars, raceVars>>

\* the values of a part's variables while that part is not running
CancelIdle == cancelAt = -1

DownIdle == dsIn = <<>> /\ dsOut = <<>>

PeaksIdle == epIn = <<>> /\ epOut = <<>>

PoolIdle ==
    /\ numCPU = 0
    /\ numFiles = 0
    /\ maxWorkers = 0
    /\ jobs = <<>>
    /\ jobsClosed = FALSE
    /\ results = <<>>
    /\ worker = <<>>
    /\ sendIdx = 0
    /\ recvIdx = 0
    /\ successCount = 0
    /\ errorCount = 0
    /\ saveCalls = <<>>

RaceIdle ==
    /\ reqKey = <<>>
    /\ reqPC = <<>>
    /\ reqSongID = <<>>
    /\ reqResult = <<>>
    /\ songKey = <<>>

\* return nil, fmt.Errorf(...)
ReturnErrorPartial(kind) ==
    /\ fpErr' = kind
    /\ fpRet' = [nil |-> FALSE, map |-> fingerprints]
    /\ pc' = "fp_returned"

ReturnError(kind) ==
    /\ fpErr' = kind
    /\ fpRet' = NilMap
    /\ pc' = "fp_returned"

\* return fingerprints, nil
ReturnOK ==
    /\ fpErr' = "none"
    /\ fpRet' = [nil |-> FALSE, map |-> fingerprints]
    /\ pc' = "fp_returned"

(***************************************************************************)
(* processAndSave, first part: RegisterSong.  A failure of db.NewDBClient   *)
(* returns like a failure of RegisterSong: an error, nothing registered.   *)
(***************************************************************************)
RegisterSong ==
    /\ pc = "register"
    /\ \/ /\ songID' = nextID
          /\ nextID' = nextID + 1
          /\ songs' = songs \cup {nextID}
          /\ pc' = "probe"
          /\ UNCHANGED retErr
       \/ /\ retErr' = "register"
          /\ pc' = "done"
          /\ UNCHANGED <<songID, nextID, songs>>
    /\ UNCHANGED <<fpStore, inputVars, driverVars, otherVars, fpRet, fpErr, fault>>

(***************************************************************************)
(* FingerprintAudioChunked.                                                *)
(***************************************************************************)
GetAudioDuration ==
    /\ pc = "probe"
    /\ \/ /\ duration' = fileDuration
          /\ start' = 0
          /\ pc' = "loop"
          /\ UNCHANGED <<fpRet, fpErr, fault>>
       \/ /\ fault' = [kind |-> "duration", chunk |-> 0]
          /\ ReturnError("duration")
          /\ UNCHANGED <<duration, start>>
    /\ UNCHANGED <<dur, chunkIdx, fingerprints, peaks, chunkFP, tmpFiles,
                   extractLog, emitLog, storeVars, inputVars, otherVars,
                   songID, retErr>>

\* the loop test and the computation of dur
LoopHead ==
    /\ pc = "loop"
    /\ LET chunkDur == ChunkDur(cfg, duration)
           d == IF start + chunkDur > duration THEN duration - start ELSE chunkDur
       IN  IF start < duration /\ d > 0
           THEN /\ dur' = d
                /\ pc' = "extract"
                /\ UNCHANGED <<fpRet, fpErr>>
           ELSE /\ ReturnOK
                /\ UNCHANGED dur
    /\ UNCHANGED <<duration, start, chunkIdx, fingerprints, peaks, chunkFP,
                   tmpFiles, extractLog, emitLog, storeVars, inputVars,
                   otherVars, songID, retErr, fault>>

\* wav.ExtractChunkAsWAV: ffmpeg writes tmp/chunk_<nanos>_<start>.wav; when it
\* exits non-zero the file it was writing may or may not exist, and
\* ExtractChunkAsWAV returns "" without removing it
ExtractChunkAsWAV ==
    /\ pc = "extract"
    /\ extractLog' = Append(extractLog, <<start, dur>>)
    /\ \/ /\ tmpFiles' = tmpFiles \cup {Len(extractLog) + 1}
          /\ pc' = "read"
          /\ UNCHANGED <<fpRet, fpErr, fault>>
       \/ /\ \E left \in BOOLEAN :
                tmpFiles' = IF left THEN tmpFiles \cup {Len(extractLog) + 1}
                            ELSE tmpFiles
          /\ fault' = [kind |-> "extract", chunk |-> chunkIdx]
          /\ ReturnError("extract")
    /\ UNCHANGED <<duration, start, dur, chunkIdx, fingerprints, peaks, chunkFP,
                   emitLog, storeVars, inputVars, otherVars, songID, retErr>>

\* wav.ReadWavInfo(chunkPath); os.Remove(chunkPath); then the error test
ReadWavInfo ==
    /\ pc = "read"
    /\ tmpFiles' = tmpFiles \ {Len(extractLog)}
    /\ \/ /\ pc' = "spectro"
          /\ UNCHANGED <<fpRet, fpErr, fault>>
       \/ /\ fault' = [kind |-> "read", chunk |-> chunkIdx]
          /\ ReturnError("read")
    /\ UNCHANGED <<duration, start, dur, chunkIdx, fingerprints, peaks, chunkFP,
                   extractLog, emitLog, storeVars, inputVars, otherVars, songID,
                   retErr>>

\* Spectrogram, ExtractPeaks, the time offset, Fingerprint, ExtendMap,
\* chunkIdx++ and start += step
ProcessChunk ==
    /\ pc = "spectro"
    /\ IF SpectrogramFails(cfg)
       THEN /\ fault' = [kind |-> "spectrogram", chunk |-> chunkIdx]
            /\ ReturnError("spectrogram")
            /\ UNCHANGED <<start, chunkIdx, fingerprints, peaks, chunkFP, emitLog>>
       ELSE LET pks == OffsetPeaks(ChunkPeaks(start, dur), start)
                fp == Fingerprint(pks, songID, cfg)
            IN  /\ peaks' = pks
                /\ chunkFP' = fp
                /\ fingerprints' = ExtendMap(fingerprints, fp)
                /\ emitLog' = emitLog \o Writes(pks, songID, cfg.TargetZoneSize)
                /\ chunkIdx' = chunkIdx + 1
                /\ start' = start + Step(ChunkDur(cfg, duration))
                /\ pc' = "loop"
                /\ UNCHANGED <<fpRet, fpErr, fault>>
    /\ UNCHANGED <<duration, dur, tmpFiles, extractLog, storeVars, inputVars,
                   otherVars, songID, retErr>>

(***************************************************************************)
(* processAndSave, second part.                                            *)
(***************************************************************************)
FingerprintFailedNoCleanup ==
    /\ pc = "fp_returned"
    /\ fpErr # "none"
    /\ retErr' = "fingerprint"
    /\ pc' = "done"
    /\ UNCHANGED <<songs, fpStore, nextID, inputVars, driverVars, otherVars,
                   songID, fpRet, fpErr, fault>>

\* if err != nil { dbClient.DeleteSongByID(songID); return 0, 0, err }
FingerprintFailed ==
    /\ pc = "fp_returned"
    /\ fpErr # "none"
    /\ DeleteSongByID(songID)
    /\ retErr' = "fingerprint"
    /\ pc' = "done"
    /\ UNCHANGED <<nextID, inputVars, driverVars, otherVars, songID, fpRet,
                   fpErr, fault>>

\* dbClient.StoreFingerprints(fingerprint): a failing call may have written
\* any part of the records
StoreFingerprints ==
    /\ pc = "fp_returned"
    /\ fpErr = "none"
    /\ \/ /\ fpStore' = fpStore \cup Records(fpRet.map)
          /\ retErr' = "none"
          /\ pc' = "done"
       \/ /\ \E written \in SUBSET Records(fpRet.map) :
                fpStore' = fpStore \cup written
          /\ pc' = "store_failed"
          /\ UNCHANGED retErr
    /\ UNCHANGED <<songs, nextID, inputVars, driverVars, otherVars, songID,
                   fpRet, fpErr, fault>>

StoreFailedNoCleanup ==
    /\ pc = "store_failed"
    /\ retErr' = "store"
    /\ pc' = "done"
    /\ UNCHANGED <<songs, fpStore, nextID, inputVars, driverVars, otherVars,
                   songID, fpRet, fpErr, fault>>

\* if err := StoreFingerprints(...); err != nil { DeleteSongByID(songID); return }
StoreFailed ==
    /\ pc = "store_failed"
    /\ DeleteSongByID(songID)
    /\ retErr' = "store"
    /\ pc' = "done"
    /\ UNCHANGED <<nextID, inputVars, driverVars, otherVars, songID, fpRet,
                   fpErr, fault>>

Init ==
    /\ pc = "register"
    /\ cfg \in Configs
    /\ fileDuration \in Durations
    /\ filePeaks \in PeakLists(fileDuration)
    /\ songs = {}
    /\ fpStore = {}
    /\ nextID = 1
    /\ songID = 0
    /\ retErr = "none"
    /\ duration = 0
    /\ start = 0
    /\ dur = 0
    /\ chunkIdx = 0
    /\ fingerprints = <<>>
    /\ peaks = <<>>
    /\ chunkFP = <<>>
    /\ fpRet = NilMap
    /\ fpErr = "none"
    /\ tmpFiles = {}
    /\ extractLog = <<>>
    /\ emitLog = <<>>
    /\ fault = NoFault
    /\ addrIn = <<>>
    /\ addrOut = 0
    /\ CancelIdle
    /\ DownIdle
    /\ PeaksIdle
    /\ PoolIdle
    /\ RaceIdle

Next ==
    \/ RegisterSong
    \/ GetAudioDuration
    \/ LoopHead
    \/ ExtractChunkAsWAV
    \/ ReadWavInfo
    \/ ProcessChunk
    \/ FingerprintFailed
    \/ StoreFingerprints
    \/ StoreFailed

Spec == Init /\ [][Next]_vars

(***************************************************************************)
(* createAddress on its own: the inputs are drawn from AddrInputs and the  *)
(* one action applies the function.                                        *)
(***************************************************************************)
AddrFreqs == {99, 4432, 8800, 51200, 55120}

AddrTimes == {0, 1000000, 1250000, 1250999, 17634000}

AddrPeaks == [Freq : AddrFreqs, Time : AddrTimes]

\* a target is never earlier than its anchor
AddrInputs == {q \in AddrPeaks \X AddrPeaks : q[1].Time <= q[2].Time}

InitAddr ==
    /\ pc = "addr_call"
    /\ addrIn \in AddrInputs
    /\ addrOut = <<0, 0>>
    /\ cfg = [DSPRatio |-> 8, TargetZoneSize |-> 0, ChunkDurationSec |-> 0]
    /\ fileDuration = 0
    /\ filePeaks = <<>>
    /\ songs = {}
    /\ fpStore = {}
    /\ nextID = 1
    /\ songID = 0
    /\ retErr = "none"
    /\ duration = 0
    /\ start = 0
    /\ dur = 0
    /\ chunkIdx = 0
    /\ fingerprints = <<>>
    /\ peaks = <<>>
    /\ chunkFP = <<>>
    /\ fpRet = NilMap
    /\ fpErr = "none"
    /\ tmpFiles = {}
    /\ extractLog = <<>>
    /\ emitLog = <<>>
    /\ fault = NoFault
    /\ CancelIdle
    /\ DownIdle
    /\ PeaksIdle
    /\ PoolIdle
    /\ RaceIdle

CreateAddressCall ==
    /\ pc = "addr_call"
    /\ addrOut' = createAddress(addrIn[1], addrIn[2])
    /\ pc' = "addr_done"
    /\ UNCHANGED <<addrIn, inputVars, storeVars, driverVars, songID, retErr,
                   fpRet, fpErr, fault, cancelVars, downVars, peakVars,
                   poolVars, raceVars>>

NextAddr == CreateAddressCall

SpecAddr == InitAddr /\ [][NextAddr]_vars

(***************************************************************************)
(* A caller that gives up while FingerprintAudioChunked runs.  The function *)
(* takes (filePath, songID, cfg): no context, channel or flag reaches it,  *)
(* so the caller's cancel is an event of the environment that the code     *)
(* never reads.  cancelAt records the chunk index at that moment.          *)
(***************************************************************************)
CancelConfigs == {c \in Configs : c.DSPRatio = 8 /\ c.TargetZoneSize = 1}

CancelPeakLists(D) == {s \in PeakLists(D) : Len(s) <= MaxPeaks - 1}

InitCancel ==
    /\ pc = "register"
    /\ cfg \in CancelConfigs
    /\ fileDuration \in Durations
    /\ filePeaks \in CancelPeakLists(fileDuration)
    /\ songs = {}
    /\ fpStore = {}
    /\ nextID = 1
    /\ songID = 0
    /\ retErr = "none"
    /\ duration = 0
    /\ start = 0
    /\ dur = 0
    /\ chunkIdx = 0
    /\ fingerprints = <<>>
    /\ peaks = <<>>
    /\ chunkFP = <<>>
    /\ fpRet = NilMap
    /\ fpErr = "none"
    /\ tmpFiles = {}
    /\ extractLog = <<>>
    /\ emitLog = <<>>
    /\ fault = NoFault
    /\ addrIn = <<>>
    /\ addrOut = 0
    /\ CancelIdle
    /\ DownIdle
    /\ PeaksIdle
    /\ PoolIdle
    /\ RaceIdle

Cancel ==
    /\ pc \in {"probe", "loop", "extract", "read", "spectro"}
    /\ cancelAt = -1
    /\ cancelAt' = chunkIdx
    /\ UNCHANGED <<pc, inputVars, storeVars, driverVars, songID, retErr, fpRet,
                   fpErr, fault, addrVars, downVars, peakVars, poolVars,
                   raceVars>>

NextCancel ==
    \/ Cancel
    \/ RegisterSong
    \/ GetAudioDuration
    \/ LoopHead
    \/ ExtractChunkAsWAV
    \/ ReadWavInfo
    \/ ProcessChunk
    \/ FingerprintFailed
    \/ StoreFingerprints
    \/ StoreFailed

SpecCancel == InitCancel /\ [][NextCancel]_vars

\* the indexing path and createAddress while they are not running
DriverIdle ==
    /\ cfg = [DSPRatio |-> 8, TargetZoneSize |-> 0, ChunkDurationSec |-> 0]
    /\ fileDuration = 0
    /\ filePeaks = <<>>
    /\ songs = {}
    /\ fpStore = {}
    /\ nextID = 1
    /\ songID = 0
    /\ retErr = "none"
    /\ duration = 0
    /\ start = 0
    /\ dur = 0
    /\ chunkIdx = 0
    /\ fingerprints = <<>>
    /\ peaks = <<>>
    /\ chunkFP = <<>>
    /\ fpRet = NilMap
    /\ fpErr = "none"
    /\ tmpFiles = {}
    /\ extractLog = <<>>
    /\ emitLog = <<>>
    /\ fault = NoFault

AddrIdle == addrIn = <<>> /\ addrOut = 0

(***************************************************************************)
(* Downsample on its own.  A sample is an integer and a mean is kept exact *)
(* as <<sum, count>>, the rational sum/count that sum/float64(end-i) rounds.*)
(***************************************************************************)
MaxSamples == 3

\* the input of scenario S2
S2Input == [i \in 1..7 |-> i]

DownSamples == {-1, 0, 2}

DownRates == {<<3, 1>>, <<2, 1>>, <<1, 1>>, <<7, 2>>, <<44100, 5512>>,
              <<1, 3>>, <<0, 1>>, <<2, 0>>}

DownInputs ==
    [input : UNION {[1..n -> DownSamples] : n \in 0..MaxSamples} \cup {S2Input},
     rates : DownRates]

\* sum := 0.0; for j := i; j < end; j++ { sum += input[j] }  (indices from 0)
RECURSIVE BucketSum(_, _, _)
BucketSum(input, j, end) ==
    IF j >= end THEN 0 ELSE input[j + 1] + BucketSum(input, j + 1, end)

BucketAvgByRatio(sum, i, end, ratio) == <<sum, ratio>>

\* sum / float64(end - i)
BucketAvg(sum, i, end, ratio) == <<sum, end - i>>

\* for i := 0; i < len(input); i += ratio { ... append ... }
RECURSIVE DownLoop(_, _, _, _)
DownLoop(input, ratio, i, resampled) ==
    IF i >= Len(input) THEN resampled
    ELSE LET end == IF i + ratio > Len(input) THEN Len(input) ELSE i + ratio
             sum == BucketSum(input, i, end)
         IN  DownLoop(input, ratio, i + ratio,
                      Append(resampled, BucketAvg(sum, i, end, ratio)))

Downsample(input, originalSampleRate, targetSampleRate) ==
    IF targetSampleRate <= 0 \/ originalSampleRate <= 0
    THEN [err |-> "positive", out |-> <<>>]
    ELSE IF targetSampleRate > originalSampleRate
    THEN [err |-> "target", out |-> <<>>]
    ELSE LET ratio == originalSampleRate \div targetSampleRate
         IN  IF ratio <= 0
             THEN [err |-> "ratio", out |-> <<>>]
             ELSE [err |-> "none", out |-> DownLoop(input, ratio, 0, <<>>)]

InitDown ==
    /\ pc = "down_call"
    /\ dsIn \in DownInputs
    /\ dsOut = <<>>
    /\ DriverIdle
    /\ AddrIdle
    /\ CancelIdle
    /\ PeaksIdle
    /\ PoolIdle
    /\ RaceIdle

DownsampleCall ==
    /\ pc = "down_call"
    /\ dsOut' = Downsample(dsIn.input, dsIn.rates[1], dsIn.rates[2])
    /\ pc' = "down_done"
    /\ UNCHANGED <<dsIn, inputVars, storeVars, driverVars, songID, retErr,
                   fpRet, fpErr, fault, addrVars, cancelVars, peakVars,
                   poolVars, raceVars>>

NextDown == DownsampleCall

SpecDown == InitDown /\ [][NextDown]_vars

(***************************************************************************)
(* ExtractPeaks on its own.  A peak is kept as its frame index and         *)
(* frequency index, of which Peak.Time = frameIdx * frameDuration and      *)
(* Peak.Freq = freqIdx * freqResolution are multiples, with the position   *)
(* of its band in cfg.FreqBands as a history tag.                          *)
(*                                                                         *)
(* Magnitudes are float64 values (cmplx.Abs, so never negative), and the   *)
(* mean of the band maxima is computed in float64: every += and the        *)
(* division round to nearest, ties to even.  The model keeps the rounding  *)
(* and scales the format down: a value is m * 2^e units with a significand *)
(* m < 2^MantBits (float64 has 53 bits), and 1.0 is FloatOne units, so     *)
(* that the mean of up to four magnitudes that are 0 or at least 1.0 has   *)
(* the full significand.                                                   *)
(***************************************************************************)
MaxMag == 6
MantBits == 3

FloatOne == 2^(MantBits + 1)

\* the spacing of the format at the rational num/den >= 0
RECURSIVE Spacing(_, _, _)
Spacing(num, den, s) ==
    IF num < den * s * (2^MantBits) THEN s ELSE Spacing(num, den, 2 * s)

\* num/den rounded to the nearest value of the format, ties to even
RoundFloat(num, den) ==
    LET s == Spacing(num, den, 1)
        q == num \div (den * s)
        r == num - q * den * s
    IN  IF 2 * r > den * s \/ (2 * r = den * s /\ q % 2 = 1)
        THEN (q + 1) * s
        ELSE q * s

\* cfg.WindowSize of the ExtractPeaks inputs; a frame has WindowSize/2 bins
PeakWindowSize == 8

PeakMags == {RoundFloat(v * FloatOne, 1) : v \in 0..MaxMag}

PeakFrames == [1..(PeakWindowSize \div 2) -> PeakMags]

SecondFrames ==
    {<<0, 0, 0, 0>>, <<0, FloatOne, 0, FloatOne>>, <<FloatOne, 0, 0, 0>>}

PeakSpectrograms ==
    {<<>>} \cup {<<f>> : f \in PeakFrames}
           \cup {<<f, g>> : f \in SecondFrames, g \in SecondFrames}

PeakBands ==
    {<<>>,
     <<<<2, 4>>>>,
     <<<<0, 2>>, <<2, 4>>>>,
     <<<<0, 1>>, <<1, 2>>, <<2, 4>>>>,
     <<<<0, 3>>, <<2, 4>>>>,
     <<<<1, 3>>, <<3, 8>>>>,
     <<<<0, 2>>, <<4, 6>>>>,
     <<<<3, 2>>, <<0, 4>>>>}

PeakInputs ==
    [spectrogram : PeakSpectrograms, WindowSize : {PeakWindowSize},
     FreqBands : PeakBands]

\* var best bandMax; for idx := band[0]; idx < hi; idx++ { ... }
RECURSIVE BandScan(_, _, _, _)
BandScan(frame, idx, hi, best) ==
    IF idx >= hi THEN best
    ELSE BandScan(frame, idx + 1, hi,
                  IF frame[idx + 1] > best.mag
                  THEN [mag |-> frame[idx + 1], freqIdx |-> idx]
                  ELSE best)

\* the loop over cfg.FreqBands: maxMags and freqIndices of one frame, bands
\* that are empty after clamping skipped
RECURSIVE BandMaxima(_, _, _, _)
BandMaxima(frame, bands, halfWindow, k) ==
    IF k > Len(bands) THEN <<>>
    ELSE LET band == bands[k]
             hi1 == IF band[2] > halfWindow THEN halfWindow ELSE band[2]
             hi == IF hi1 > Len(frame) THEN Len(frame) ELSE hi1
             rest == BandMaxima(frame, bands, halfWindow, k + 1)
         IN  IF band[1] >= hi THEN rest
             ELSE LET best == BandScan(frame, band[1], hi, [mag |-> 0, freqIdx |-> 0])
                  IN  <<[mag |-> best.mag, freqIdx |-> best.freqIdx, band |-> k]>>
                          \o rest

\* var sum float64; for _, m := range maxMags { sum += m }
RECURSIVE SumMags(_, _)
SumMags(maxMags, sum) ==
    IF maxMags = <<>> THEN sum
    ELSE SumMags(Tail(maxMags), RoundFloat(sum + Head(maxMags).mag, 1))

AtLeastAvg(mag, sum, n) == mag >= RoundFloat(sum, n)

\* avg := sum / float64(len(maxMags)); mag > avg
AboveAvg(mag, sum, n) == mag > RoundFloat(sum, n)

\* the peaks of one frame
FramePeaks(frameIdx, frame, bands, halfWindow) ==
    LET maxMags == BandMaxima(frame, bands, halfWindow, 1)
        sum == SumMags(maxMags, 0)
        n == Len(maxMags)
        kept == SelectSeq(maxMags, LAMBDA m : AboveAvg(m.mag, sum, n))
    IN  IF Len(maxMags) = 0 THEN <<>>
        ELSE [i \in 1..Len(kept) |->
                 [frame |-> frameIdx, freqIdx |-> kept[i].freqIdx,
                  band |-> kept[i].band]]

RECURSIVE FrameLoop(_, _, _)
FrameLoop(spectrogram, c, frameIdx) ==
    IF frameIdx >= Len(spectrogram) THEN <<>>
    ELSE FramePeaks(frameIdx, spectrogram[frameIdx + 1], c.FreqBands,
                    c.WindowSize \div 2)
             \o FrameLoop(spectrogram, c, frameIdx + 1)

ExtractPeaks(spectrogram, c) ==
    IF Len(spectrogram) < 1 THEN <<>> ELSE FrameLoop(spectrogram, c, 0)

InitPeaks ==
    /\ pc = "peaks_call"
    /\ epIn \in PeakInputs
    /\ epOut = <<>>
    /\ DriverIdle
    /\ AddrIdle
    /\ CancelIdle
    /\ DownIdle
    /\ PoolIdle
    /\ RaceIdle

ExtractPeaksCall ==
    /\ pc = "peaks_call"
    /\ epOut' = ExtractPeaks(epIn.spectrogram, epIn)
    /\ pc' = "peaks_done"
    /\ UNCHANGED <<epIn, inputVars, storeVars, driverVars, songID, retErr,
                   fpRet, fpErr, fault, addrVars, cancelVars, downVars,
                   poolVars, raceVars>>

NextPeaks == ExtractPeaksCall

SpecPeaks == InitPeaks /\ [][NextPeaks]_vars

(***************************************************************************)
(* processFilesConcurrently: the main goroutine and its workers.  A file   *)
(* is its position 1..numFiles in filePaths; jobs and results are the      *)
(* buffered channels, a send being enabled while the buffer has room and a *)
(* receive while it holds a value.                                         *)
(***************************************************************************)
MaxCPU == 4
MaxFiles == 4

MaxWorkersAllCPU(cpu, n) ==
    LET a == cpu
        b == IF n < a THEN n ELSE a
    IN  IF b < 1 THEN 1 ELSE b

\* maxWorkers := runtime.NumCPU() / 2, lowered to numFiles, raised to 1
MaxWorkers(cpu, n) ==
    LET a == cpu \div 2
        b == IF n < a THEN n ELSE a
    IN  IF b < 1 THEN 1 ELSE b

ChanCapOne(n) == 1

\* make(chan string, numFiles), make(chan error, numFiles)
ChanCap(n) == n

InitPool ==
    /\ pc = "pool_start"
    /\ numCPU \in 1..MaxCPU
    /\ numFiles \in 0..MaxFiles
    /\ maxWorkers = 0
    /\ jobs = <<>>
    /\ jobsClosed = FALSE
    /\ results = <<>>
    /\ worker = <<>>
    /\ sendIdx = 0
    /\ recvIdx = 0
    /\ successCount = 0
    /\ errorCount = 0
    /\ saveCalls = [f \in 1..numFiles |-> 0]
    /\ DriverIdle
    /\ AddrIdle
    /\ CancelIdle
    /\ DownIdle
    /\ PeaksIdle
    /\ RaceIdle

notPoolVars == <<inputVars, storeVars, driverVars, songID, retErr, fpRet, fpErr,
                 fault, addrVars, cancelVars, downVars, peakVars, raceVars>>

\* the function up to the start of the workers
PoolStart ==
    /\ pc = "pool_start"
    /\ IF numFiles = 0
       THEN /\ pc' = "pool_returned"
            /\ UNCHANGED <<maxWorkers, worker>>
       ELSE /\ maxWorkers' = MaxWorkers(numCPU, numFiles)
            /\ worker' = [w \in 1..MaxWorkers(numCPU, numFiles) |->
                             [st |-> "wait", fp |-> 0, err |-> FALSE]]
            /\ pc' = "pool_send"
    /\ UNCHANGED <<numCPU, numFiles, jobs, jobsClosed, results, sendIdx,
                   recvIdx, successCount, errorCount, saveCalls, notPoolVars>>

\* jobs <- fp
PoolSend ==
    /\ pc = "pool_send"
    /\ sendIdx < numFiles
    /\ Len(jobs) < ChanCap(numFiles)
    /\ jobs' = Append(jobs, sendIdx + 1)
    /\ sendIdx' = sendIdx + 1
    /\ UNCHANGED <<pc, numCPU, numFiles, maxWorkers, jobsClosed, results,
                   worker, recvIdx, successCount, errorCount, saveCalls,
                   notPoolVars>>

\* close(jobs)
PoolClose ==
    /\ pc = "pool_send"
    /\ sendIdx = numFiles
    /\ jobsClosed' = TRUE
    /\ pc' = "pool_recv"
    /\ UNCHANGED <<numCPU, numFiles, maxWorkers, jobs, results, worker,
                   sendIdx, recvIdx, successCount, errorCount, saveCalls,
                   notPoolVars>>

\* err := <-results, and the count
PoolRecv ==
    /\ pc = "pool_recv"
    /\ recvIdx < numFiles
    /\ results # <<>>
    /\ results' = Tail(results)
    /\ IF Head(results)
       THEN errorCount' = errorCount + 1 /\ UNCHANGED successCount
       ELSE successCount' = successCount + 1 /\ UNCHANGED errorCount
    /\ recvIdx' = recvIdx + 1
    /\ UNCHANGED <<pc, numCPU, numFiles, maxWorkers, jobs, jobsClosed, worker,
                   sendIdx, saveCalls, notPoolVars>>

\* the loop over the results has ended: Printf and return
PoolReturn ==
    /\ pc = "pool_recv"
    /\ recvIdx = numFiles
    /\ pc' = "pool_returned"
    /\ UNCHANGED <<poolVars, notPoolVars>>

\* for fp := range jobs: a value is received and saveEntry(fp) is called
WorkerTake(w) ==
    /\ worker[w].st = "wait"
    /\ jobs # <<>>
    /\ jobs' = Tail(jobs)
    /\ worker' = [worker EXCEPT ![w] = [st |-> "run", fp |-> Head(jobs), err |-> FALSE]]
    /\ saveCalls' = [saveCalls EXCEPT ![Head(jobs)] = @ + 1]
    /\ UNCHANGED <<pc, numCPU, numFiles, maxWorkers, jobsClosed, results,
                   sendIdx, recvIdx, successCount, errorCount, notPoolVars>>

\* saveEntry returns nil or an error
WorkerSaved(w) ==
    /\ worker[w].st = "run"
    /\ \E e \in BOOLEAN :
          worker' = [worker EXCEPT ![w] = [st |-> "send", fp |-> @.fp, err |-> e]]
    /\ UNCHANGED <<pc, numCPU, numFiles, maxWorkers, jobs, jobsClosed, results,
                   sendIdx, recvIdx, successCount, errorCount, saveCalls,
                   notPoolVars>>

\* results <- (the value saveEntry returned)
WorkerSend(w) ==
    /\ worker[w].st = "send"
    /\ Len(results) < ChanCap(numFiles)
    /\ results' = Append(results, worker[w].err)
    /\ worker' = [worker EXCEPT ![w] = [st |-> "wait", fp |-> 0, err |-> FALSE]]
    /\ UNCHANGED <<pc, numCPU, numFiles, maxWorkers, jobs, jobsClosed, sendIdx,
                   recvIdx, successCount, errorCount, saveCalls, notPoolVars>>

\* range over a closed and drained channel ends: the goroutine exits
WorkerExit(w) ==
    /\ worker[w].st = "wait"
    /\ jobs = <<>>
    /\ jobsClosed
    /\ worker' = [worker EXCEPT ![w] = [st |-> "exited", fp |-> 0, err |-> FALSE]]
    /\ UNCHANGED <<pc, numCPU, numFiles, maxWorkers, jobs, jobsClosed, results,
                   sendIdx, recvIdx, successCount, errorCount, saveCalls,
                   notPoolVars>>

NextPool ==
    \/ PoolStart
    \/ PoolSend
    \/ PoolClose
    \/ PoolRecv
    \/ PoolReturn
    \/ \E w \in DOMAIN worker : WorkerTake(w)
    \/ \E w \in DOMAIN worker : WorkerSaved(w)
    \/ \E w \in DOMAIN worker : WorkerSend(w)
    \/ \E w \in DOMAIN worker : WorkerExit(w)

\* a goroutine that can run gets to run
SpecPool == InitPool /\ [][NextPool]_vars /\ WF_vars(NextPool)

(***************************************************************************)
(* Concurrent index requests: handleIndex's duplicate test followed by     *)
(* processAndSave, one instance per request, on one store.  The store is   *)
(* the adapter of the specification with a unique key on the work rows:    *)
(* register_work fails when a row with the key exists, else allocates a    *)
(* fresh id, atomically.  FingerprintAudioChunked is reduced to its        *)
(* outcome: an error, or the map of the uploaded audio under the id.       *)
(***************************************************************************)
NumRequests == 2

Requests == 1..NumRequests

SongKeys == {"k1", "k2"}

\* the fingerprint records of the uploaded audio under a work id
RaceRecords(id) ==
    {[address |-> <<0, a>>, AnchorTimeMs |-> 0, SongID |-> id] : a \in 1..2}

\* GetSongByKey: a row with the key exists
KeyExists(key) == \E id \in songs : songKey[id] = key

InitRace ==
    /\ pc = "serving"
    /\ reqKey \in [Requests -> SongKeys]
    /\ reqPC = [r \in Requests |-> "check"]
    /\ reqSongID = [r \in Requests |-> 0]
    /\ reqResult = [r \in Requests |-> "none"]
    /\ songKey = <<>>
    /\ DriverIdle
    /\ AddrIdle
    /\ CancelIdle
    /\ DownIdle
    /\ PeaksIdle
    /\ PoolIdle

notRaceVars == <<pc, inputVars, driverVars, songID, retErr, fpRet, fpErr, fault,
                 addrVars, cancelVars, downVars, peakVars, poolVars>>

\* return with a result
Respond(r, result) ==
    /\ reqResult' = [reqResult EXCEPT ![r] = result]
    /\ reqPC' = [reqPC EXCEPT ![r] = "done"]

\* handleIndex: GetSongByKey and the 409 answer
IndexCheck(r) ==
    /\ reqPC[r] = "check"
    /\ IF KeyExists(reqKey[r])
       THEN Respond(r, "conflict")
       ELSE /\ reqPC' = [reqPC EXCEPT ![r] = "register"]
            /\ UNCHANGED reqResult
    /\ UNCHANGED <<reqKey, reqSongID, songKey, storeVars, notRaceVars>>

\* a RegisterSong that answers a duplicate key with the id of the row
IndexRegisterReuse(r) ==
    /\ reqPC[r] = "register"
    /\ IF KeyExists(reqKey[r])
       THEN /\ reqSongID' = [reqSongID EXCEPT ![r] =
                                 CHOOSE id \in songs : songKey[id] = reqKey[r]]
            /\ reqPC' = [reqPC EXCEPT ![r] = "fingerprint"]
            /\ UNCHANGED <<reqResult, songs, nextID, songKey>>
       ELSE \/ /\ songs' = songs \cup {nextID}
               /\ songKey' = (nextID :> reqKey[r]) @@ songKey
               /\ nextID' = nextID + 1
               /\ reqSongID' = [reqSongID EXCEPT ![r] = nextID]
               /\ reqPC' = [reqPC EXCEPT ![r] = "fingerprint"]
               /\ UNCHANGED reqResult
            \/ /\ Respond(r, "register")
               /\ UNCHANGED <<reqSongID, songs, nextID, songKey>>
    /\ UNCHANGED <<reqKey, fpStore, notRaceVars>>

\* processAndSave: NewDBClient, RegisterSong and the error return
IndexRegister(r) ==
    /\ reqPC[r] = "register"
    /\ IF KeyExists(reqKey[r])
       THEN /\ Respond(r, "register")
            /\ UNCHANGED <<reqSongID, songs, nextID, songKey>>
       ELSE \/ /\ songs' = songs \cup {nextID}
               /\ songKey' = (nextID :> reqKey[r]) @@ songKey
               /\ nextID' = nextID + 1
               /\ reqSongID' = [reqSongID EXCEPT ![r] = nextID]
               /\ reqPC' = [reqPC EXCEPT ![r] = "fingerprint"]
               /\ UNCHANGED reqResult
            \/ /\ Respond(r, "register")
               /\ UNCHANGED <<reqSongID, songs, nextID, songKey>>
    /\ UNCHANGED <<reqKey, fpStore, notRaceVars>>

\* FingerprintAudioChunked returns; on an error DeleteSongByID(songID)
IndexFingerprint(r) ==
    /\ reqPC[r] = "fingerprint"
    /\ \/ /\ reqPC' = [reqPC EXCEPT ![r] = "store"]
          /\ UNCHANGED <<reqResult, songs, fpStore>>
       \/ /\ DeleteSongByID(reqSongID[r])
          /\ Respond(r, "fingerprint")
    /\ UNCHANGED <<reqKey, reqSongID, songKey, nextID, notRaceVars>>

\* StoreFingerprints: all records written, or a failure after any part
IndexStore(r) ==
    /\ reqPC[r] = "store"
    /\ \/ /\ fpStore' = fpStore \cup RaceRecords(reqSongID[r])
          /\ Respond(r, "ok")
       \/ /\ \E written \in SUBSET RaceRecords(reqSongID[r]) :
                fpStore' = fpStore \cup written
          /\ reqPC' = [reqPC EXCEPT ![r] = "store_failed"]
          /\ UNCHANGED reqResult
    /\ UNCHANGED <<reqKey, reqSongID, songKey, songs, nextID, notRaceVars>>

\* DeleteSongByID(songID) after the failed StoreFingerprints
IndexStoreFailed(r) ==
    /\ reqPC[r] = "store_failed"
    /\ DeleteSongByID(reqSongID[r])
    /\ Respond(r, "store")
    /\ UNCHANGED <<reqKey, reqSongID, songKey, nextID, notRaceVars>>

NextRace ==
    \/ \E r \in Requests : IndexCheck(r)
    \/ \E r \in Requests : IndexRegister(r)
    \/ \E r \in Requests : IndexFingerprint(r)
    \/ \E r \in Requests : IndexStore(r)
    \/ \E r \in Requests : IndexStoreFailed(r)

SpecRace == InitRace /\ [][NextRace]_vars

(***************************************************************************)
(* Properties.                                                             *)
(***************************************************************************)
\* bit i of a uint32, and the field of `width` bits whose lowest bit is `lo`
Bit(a, i) == IF i < 16 THEN (a[2] \div (2^i)) % 2 ELSE (a[1] \div (2^(i - 16))) % 2

RECURSIVE Field(_, _, _)
Field(a, lo, width) ==
    IF width = 0 THEN 0 ELSE Bit(a, lo) + 2 * Field(a, lo + 1, width - 1)

\* the value of a uint32 below 2^31
AddrValue(a) == a[1] * 65536 + a[2]

\* the three values of a pair reduced to their field widths
Reduced(q) ==
    <<(q[1].Freq \div 100) % 512, (q[2].Freq \div 100) % 512,
      ((q[2].Time - q[1].Time) \div 1000) % 16384>>

\* the pairs of the target zone of a list of n peaks (indices from 1)
ZoneSet(n, Z) == {p \in (1..n) \X (1..n) : p[1] + 1 <= p[2] /\ p[2] <= p[1] + Z}

C2_FailureAborts ==
    fault.kind # "none" =>
        /\ FpReturned
        /\ fpErr = fault.kind
        /\ fpRet = NilMap
        /\ Len(extractLog) = IF fault.kind = "duration" THEN 0 ELSE fault.chunk + 1

C2_Witness ==
    /\ FpReturned
    /\ fault.kind = "read"
    /\ fault.chunk >= 1
    /\ DOMAIN fingerprints # {}

\* C3: chunk concatenation.  When the overlap between consecutive chunks (5 s
\* when the chunk is longer than 5 s, none otherwise) is at least the time
\* difference of every anchor/target pair of the whole file, every address of
\* the whole-file fingerprint is in the map the chunked driver returns.
C3_ChunkConcatenation ==
    LET Z == cfg.TargetZoneSize
        effOverlap == IF ChunkDur(cfg, duration) > overlap THEN overlap ELSE 0
    IN  (/\ FpReturned
         /\ fpErr = "none"
         /\ \A p \in ZoneSet(Len(filePeaks), Z) :
               filePeaks[p[2]].Time - filePeaks[p[1]].Time <= effOverlap)
        => DOMAIN Fingerprint(filePeaks, songID, cfg) \subseteq DOMAIN fpRet.map

C3_Witness ==
    LET Z == cfg.TargetZoneSize
        stepv == Step(ChunkDur(cfg, duration))
    IN  /\ FpReturned
        /\ fpErr = "none"
        /\ ChunkDur(cfg, duration) > overlap
        /\ chunkIdx >= 2
        /\ \A p \in ZoneSet(Len(filePeaks), Z) :
              filePeaks[p[2]].Time - filePeaks[p[1]].Time <= overlap
        /\ \E p \in ZoneSet(Len(filePeaks), Z) :
              filePeaks[p[1]].Time \div stepv # filePeaks[p[2]].Time \div stepv

\* C4: address round trip.  The address decodes as bits 31..23 =
\* floor(anchor_freq/10) mod 2^9, bits 22..14 = floor(target_freq/10) mod 2^9,
\* bits 13..0 = floor((t_target - t_anchor)*1000) mod 2^14, and another pair
\* gets the same address exactly when its three reduced values are the same.
C4_AddressRoundTrip ==
    pc = "addr_done" =>
        /\ Field(addrOut, 23, 9) = (addrIn[1].Freq \div 100) % 512
        /\ Field(addrOut, 14, 9) = (addrIn[2].Freq \div 100) % 512
        /\ Field(addrOut, 0, 14) = ((addrIn[2].Time - addrIn[1].Time) \div 1000) % 16384
        /\ \A q \in AddrInputs :
              (createAddress(q[1], q[2]) = addrOut) <=> (Reduced(q) = Reduced(addrIn))

C4_Witness ==
    /\ pc = "addr_done"
    /\ addrIn[1].Freq \div 100 >= 512
    /\ addrIn[2].Freq \div 100 >= 512
    /\ (addrIn[2].Time - addrIn[1].Time) \div 1000 >= 16384
    /\ Field(addrOut, 23, 9) = 39

S1Pair == <<[Freq |-> 4432, Time |-> 1000000], [Freq |-> 8800, Time |-> 1250000]>>

\* C5 (as amended): for anchor (443.2 Hz, 1.000 s) and target (880.0 Hz,
\* 1.250 s) the address (44<<23)|(88<<14)|250 that createAddress returns is
\* 370,540,794.
C5_S1Address ==
    (pc = "addr_done" /\ addrIn = S1Pair) =>
        /\ Reduced(addrIn) = <<44, 88, 250>>
        /\ AddrValue(addrOut) = 370540794

C5_Witness == pc = "addr_done" /\ addrIn = S1Pair

\* C5 as stated: the address of scenario S1 is 369,999,610.
C5_S1AddressAsStated ==
    (pc = "addr_done" /\ addrIn = S1Pair) => AddrValue(addrOut) = 369999610

\* the index of the last write to address a
LastWrite(a) ==
    CHOOSE k \in 1..Len(emitLog) :
        /\ emitLog[k].address = a
        /\ \A m \in (k + 1)..Len(emitLog) : emitLog[m].address # a

\* C6: last writer wins.  The accumulator holds exactly the addresses
\* written so far, each with the couple of the last write to it in processing
\* order (chunks in order, anchors in order, targets in order), and a
\* successful call returns that map.
C6_LastWriterWins ==
    /\ DOMAIN fingerprints = {emitLog[k].address : k \in 1..Len(emitLog)}
    /\ \A a \in DOMAIN fingerprints : fingerprints[a] = emitLog[LastWrite(a)].couple
    /\ (FpReturned /\ fpErr = "none") => fpRet = [nil |-> FALSE, map |-> fingerprints]

C6_Witness ==
    /\ FpReturned
    /\ fpErr = "none"
    /\ \E k \in 1..Len(emitLog) :
          /\ k < LastWrite(emitLog[k].address)
          /\ emitLog[k].couple # emitLog[LastWrite(emitLog[k].address)].couple
          /\ fpRet.map[emitLog[k].address] # emitLog[k].couple

\* C7: target zone.  Fingerprint hashes exactly the pairs (i, j) with
\* i+1 <= j <= min(i+Z, len): the map's addresses are those of the zone pairs,
\* it has at most len * Z entries, and every value carries the work id and
\* floor(time*1000) of an anchor of a zone pair with that address.
C7_TargetZone ==
    LET n == Len(peaks)
        Z == cfg.TargetZoneSize
    IN  /\ DOMAIN chunkFP =
              {createAddress(peaks[p[1]], peaks[p[2]]) : p \in ZoneSet(n, Z)}
        /\ Cardinality(DOMAIN chunkFP) <= n * Z
        /\ \A a \in DOMAIN chunkFP :
              /\ chunkFP[a].SongID = songID
              /\ \E p \in ZoneSet(n, Z) :
                    /\ createAddress(peaks[p[1]], peaks[p[2]]) = a
                    /\ chunkFP[a].AnchorTimeMs = peaks[p[1]].Time \div 1000

C7_Witness ==
    /\ Len(peaks) = 3
    /\ cfg.TargetZoneSize = 1
    /\ Cardinality(DOMAIN chunkFP) = 2
    /\ createAddress(peaks[1], peaks[3]) \notin DOMAIN chunkFP

\* a config that violates a constraint of the config table (of the fields the
\* driver reads)
InvalidConfig(c) ==
    \/ c.DSPRatio < 1
    \/ c.TargetZoneSize < 1
    \/ c.ChunkDurationSec < 0

\* C8: every temporary chunk file has been removed before the next chunk is
\* extracted and before FingerprintAudioChunked returns, on every path
\* (stated for the valid configs).
C8_TempFilesRemoved ==
    (~InvalidConfig(cfg) /\ (pc = "extract" \/ FpReturned)) => tmpFiles = {}

\* C9: when the duration probe reports 0, FingerprintAudioChunked returns an
\* error, and indexing the file leaves no work registered (stated for the
\* valid configs).
C9_ZeroLengthIsError ==
    (/\ ~InvalidConfig(cfg)
     /\ FpReturned
     /\ fault.kind # "duration"
     /\ fileDuration = 0) =>
        /\ fpErr # "none"
        /\ pc = "done" => songID \notin songs

\* C10: with a config that violates a constraint of the config table the
\* operation ends with an error and produces no fingerprints (stated for the
\* files of positive duration).
C10_ConfigError ==
    (FpReturned /\ InvalidConfig(cfg) /\ fileDuration > 0) =>
        /\ fpErr # "none"
        /\ fpRet = NilMap

\* C13: a cancel issued while FingerprintAudioChunked runs is honoured at the
\* next chunk boundary: no chunk after the one in progress is extracted, the
\* call ends as cancelled and returns no map.
C13_CancelHonoured ==
    cancelAt >= 0 =>
        /\ Len(extractLog) <= cancelAt + 1
        /\ FpReturned => (fpErr = "cancelled" /\ fpRet = NilMap)

\* the chunk length C of the claims: ChunkDurationSec, or D when it is 0
ChunkLen == IF cfg.ChunkDurationSec = 0 THEN duration ELSE cfg.ChunkDurationSec

\* C14 (as amended): the start offset advances between successive chunks by
\* C - O when C > O = 5 s, and by C (no overlap) when C <= O.
C14_ChunkStep ==
    cfg.ChunkDurationSec >= 0 =>
        \A i \in 1..(Len(extractLog) - 1) :
            extractLog[i + 1][1] - extractLog[i][1] =
                IF ChunkLen > 5000000 THEN ChunkLen - 5000000 ELSE ChunkLen

C14_Witness ==
    /\ cfg.ChunkDurationSec = 8000000
    /\ Len(extractLog) >= 2
    /\ extractLog[2][1] = 3000000

\* C14 as stated: the start offset advances by max(C - O, C).
C14_ChunkStepAsStated ==
    cfg.ChunkDurationSec >= 0 =>
        \A i \in 1..(Len(extractLog) - 1) :
            extractLog[i + 1][1] - extractLog[i][1] =
                IF ChunkLen - 5000000 >= ChunkLen THEN ChunkLen - 5000000 ELSE ChunkLen

\* C15: with ChunkDurationSec = 0 and D > 0 a call that meets no failure makes
\* exactly one chunk extraction, with start 0 and duration D.
C15_WholeFileOneChunk ==
    (/\ cfg.ChunkDurationSec = 0
     /\ ~InvalidConfig(cfg)
     /\ fileDuration > 0
     /\ FpReturned
     /\ fpErr = "none") => extractLog = <<<<0, fileDuration>>>>

\* C18: chunk coverage, for D > 0 and ChunkDurationSec >= 0.  The extracted
\* intervals [t, t+d) start at t = 0, have strictly increasing starts, each has
\* 0 < d <= C and t + d <= D, consecutive ones leave no gap, the loop ends
\* after at most ceil(D / step) extractions, and when the call returns without
\* a failure the last interval ends at D: the union is exactly [0, D).
C18_ChunkCoverage ==
    LET n == Len(extractLog)
        S == IF ChunkLen > 5000000 THEN ChunkLen - 5000000 ELSE ChunkLen
    IN  (cfg.ChunkDurationSec >= 0 /\ fileDuration > 0) =>
            /\ n >= 1 => extractLog[1][1] = 0
            /\ \A i \in 1..n :
                  /\ 0 < extractLog[i][2]
                  /\ extractLog[i][2] <= ChunkLen
                  /\ extractLog[i][1] + extractLog[i][2] <= fileDuration
            /\ \A i \in 1..(n - 1) :
                  /\ extractLog[i][1] < extractLog[i + 1][1]
                  /\ extractLog[i + 1][1] <= extractLog[i][1] + extractLog[i][2]
            /\ n >= 1 => (n - 1) * S < fileDuration
            /\ (FpReturned /\ fpErr = "none") =>
                  /\ n >= 1
                  /\ extractLog[n][1] + extractLog[n][2] = fileDuration

C18_Witness ==
    /\ cfg.ChunkDurationSec = 8000000
    /\ fileDuration = MaxDurSec * 1000000
    /\ FpReturned
    /\ fpErr = "none"
    /\ Len(extractLog) >= 3
    /\ extractLog[2][2] < cfg.ChunkDurationSec

\* the sum of the inputs at indices lo..hi-1 (from 0) of a sample list
SumOver(input, lo, hi) ==
    LET RECURSIVE Acc(_)
        Acc(S) == IF S = {} THEN 0
                  ELSE LET j == CHOOSE x \in S : TRUE
                       IN  input[j + 1] + Acc(S \ {j})
    IN  Acc(lo..(hi - 1))

\* C17: with ratio r = floor(fs_in/fs_target), Downsample returns ceil(len/r)
\* samples, output i being the mean of the inputs at indices
\* [i*r, min((i+1)*r, len)), the tail over its own shorter length; for input
\* [1,2,3,4,5,6,7] and ratio 3 the output is [2.0, 5.0, 7.0].
C17_Downsample ==
    (pc = "down_done" /\ dsOut.err = "none") =>
        LET r == dsIn.rates[1] \div dsIn.rates[2]
            n == Len(dsIn.input)
            out == dsOut.out
        IN  /\ Len(out) * r >= n
            /\ (Len(out) - 1) * r < n \/ (n = 0 /\ Len(out) = 0)
            /\ \A i \in 0..(Len(out) - 1) :
                  LET lo == i * r
                      hi == IF (i + 1) * r < n THEN (i + 1) * r ELSE n
                  IN  /\ out[i + 1][2] = hi - lo
                      /\ out[i + 1][1] = SumOver(dsIn.input, lo, hi)
            /\ (dsIn.input = S2Input /\ r = 3) =>
                  /\ Len(out) = 3
                  /\ out[1][1] = 2 * out[1][2]
                  /\ out[2][1] = 5 * out[2][2]
                  /\ out[3][1] = 7 * out[3][2]

C17_Witness ==
    /\ pc = "down_done"
    /\ dsIn.input = S2Input
    /\ dsIn.rates = <<7, 2>>
    /\ dsOut = [err |-> "none", out |-> <<<<6, 3>>, <<15, 3>>, <<7, 1>>>>]

\* the bins lo..hi-1 of band b that a frame has, hi clamped to WindowSize/2
\* and to the frame length
BandBins(frame, b) ==
    {idx \in epIn.FreqBands[b][1]..(epIn.FreqBands[b][2] - 1) :
        idx < epIn.WindowSize \div 2 /\ idx < Len(frame)}

\* the non-empty bands of a frame and the maximum magnitude of one
NonEmptyBands(frame) ==
    {b \in 1..Len(epIn.FreqBands) : BandBins(frame, b) # {}}

BandMaxMag(frame, b) ==
    CHOOSE m \in PeakMags :
        /\ \E idx \in BandBins(frame, b) : frame[idx + 1] = m
        /\ \A idx \in BandBins(frame, b) : frame[idx + 1] <= m

\* the sum of the band maxima of a frame over a set of bands
RECURSIVE MaximaSum(_, _)
MaximaSum(frame, B) ==
    IF B = {} THEN 0
    ELSE LET b == CHOOSE x \in B : TRUE
         IN  BandMaxMag(frame, b) + MaximaSum(frame, B \ {b})

\* a peak was emitted for band b in frame f (from 0)
Emitted(f, b) == \E k \in 1..Len(epOut) : epOut[k].frame = f /\ epOut[k].band = b

\* C16: in each frame a peak is emitted for a band exactly when the band is
\* non-empty and its maximum is strictly greater than the mean of the frame's
\* band maxima (at most one peak for a band); a frame whose band maxima are
\* all equal emits nothing, and a frame never emits a peak for every one of
\* its non-empty bands.
C16_PeakThreshold ==
    pc = "peaks_done" =>
        /\ \A k \in 1..Len(epOut) : epOut[k].frame \in 0..(Len(epIn.spectrogram) - 1)
        /\ \A j, k \in 1..Len(epOut) :
              (epOut[j].frame = epOut[k].frame /\ epOut[j].band = epOut[k].band)
                  => j = k
        /\ \A f \in 0..(Len(epIn.spectrogram) - 1) :
              LET frame == epIn.spectrogram[f + 1]
                  NE == NonEmptyBands(frame)
                  total == MaximaSum(frame, NE)
              IN  /\ \A b \in 1..Len(epIn.FreqBands) :
                        Emitted(f, b) <=>
                            /\ b \in NE
                            /\ BandMaxMag(frame, b) * Cardinality(NE) > total
                  /\ (\A a, b \in NE : BandMaxMag(frame, a) = BandMaxMag(frame, b))
                        => \A b \in NE : ~Emitted(f, b)
                  /\ NE # {} => \E b \in NE : ~Emitted(f, b)

\* C20: every peak emitted for a band (lo, hi) has its frequency index in
\* the band, lo <= idx < min(hi, WindowSize/2): the index 0 left in place
\* for a band whose magnitudes are all zero is never emitted.
C20_PeakInBand ==
    pc = "peaks_done" =>
        \A k \in 1..Len(epOut) :
            LET band == epIn.FreqBands[epOut[k].band]
                frame == epIn.spectrogram[epOut[k].frame + 1]
            IN  /\ band[1] <= epOut[k].freqIdx
                /\ epOut[k].freqIdx < band[2]
                /\ epOut[k].freqIdx < epIn.WindowSize \div 2
                /\ frame[epOut[k].freqIdx + 1] > 0

\* a frame in which a band that does not start at 0 is all zero while another
\* band emits a peak
C20_Witness ==
    /\ pc = "peaks_done"
    /\ epIn.FreqBands = <<<<0, 2>>, <<2, 4>>>>
    /\ epIn.spectrogram = <<<<0, FloatOne, 0, 0>>>>
    /\ epOut = <<[frame |-> 0, freqIdx |-> 1, band |-> 1]>>

\* the workers inside saveEntry
Running == {w \in DOMAIN worker : worker[w].st = "run"}

\* C12: at every moment of processFilesConcurrently at most
\* max(1, floor(cpu_count/2)) files are being processed (saveEntry running).
C12_PoolSize ==
    Cardinality(Running) <= IF numCPU \div 2 >= 1 THEN numCPU \div 2 ELSE 1

C12_Witness ==
    /\ numCPU = 4
    /\ numFiles >= 3
    /\ Cardinality(Running) = 2
    /\ jobs # <<>>

\* processFilesConcurrently has returned and every worker has exited
PoolFinished ==
    /\ pc = "pool_returned"
    /\ \A w \in DOMAIN worker : worker[w].st = "exited"

PoolSafe ==
    /\ \A f \in 1..numFiles : saveCalls[f] <= 1
    /\ pc = "pool_returned" =>
          /\ \A f \in 1..numFiles : saveCalls[f] = 1
          /\ recvIdx = numFiles
          /\ successCount + errorCount = numFiles
          /\ results = <<>>
    /\ \A w \in DOMAIN worker :
          (worker[w].st = "wait" /\ jobsClosed /\ jobs = <<>>) => ENABLED WorkerExit(w)
    /\ PoolFinished \/ ENABLED NextPool

\* C19: for any list of files and any interleaving of the workers, saveEntry
\* is called at most once for a file and exactly once for each when the
\* function returns, it returns only after all n results were received with
\* successCount + errorCount = n, no state short of the end is stuck (no send
\* blocks forever), and in the end the function has returned and every worker
\* has exited.
C19_PoolCompletes == []PoolSafe /\ <>[]PoolFinished

C19_Witness ==
    /\ PoolFinished
    /\ numFiles = MaxFiles
    /\ maxWorkers = 2
    /\ successCount >= 1
    /\ errorCount >= 1

\* C11: of two index requests for the same key that run concurrently on a
\* store with an atomic unique key, at most one succeeds and the other returns
\* an error; the row and the fingerprints of a request that succeeded are in
\* the store from then on, whatever cleanup the other runs.
C11_DuplicateRace ==
    /\ \A p, q \in Requests :
          (p # q /\ reqKey[p] = reqKey[q] /\ reqResult[p] = "ok") =>
              /\ reqResult[q] # "ok"
              /\ reqPC[q] = "done" =>
                    reqResult[q] \in {"conflict", "register", "fingerprint", "store"}
    /\ \A p \in Requests :
          reqResult[p] = "ok" =>
              /\ reqSongID[p] \in songs
              /\ songKey[reqSongID[p]] = reqKey[p]
              /\ RaceRecords(reqSongID[p]) \subseteq fpStore
    /\ \A p, q \in Requests :
          (p # q /\ reqSongID[p] # 0) => reqSongID[p] # reqSongID[q]

\* both requests passed the duplicate test before either registered; one
\* succeeded and the other failed at RegisterSong
C11_Witness ==
    \E p, q \in Requests :
        /\ p # q
        /\ reqKey[p] = reqKey[q]
        /\ reqResult[p] = "ok"
        /\ reqResult[q] = "register"
        /\ reqSongID[q] = 0
        /\ Cardinality(songs) = 1

====
